---- MODULE Spec2Model ----
(***************************************************************************)
(* Draft generation and deferred delivery of email_agent_app.py.           *)
(*                                                                         *)
(* A model response is a sequence of lexemes: JSON tokens, whitespace and  *)
(* prose words.  A lexeme is a record [t, v]: t is its kind and v its      *)
(* payload (the characters of a string, the name of a key).  Strings are   *)
(* sequences of one-character strings, so that str.strip() is computed.    *)
(* Time is counted in whole minutes since midnight of the starting day.    *)
(***************************************************************************)
EXTENDS Integers, Sequences, FiniteSets, TLC

\* ------------------------------------------------------------------ bounds
MaxOps == 3        \* caller operations (script reruns with an input) per run
MaxJobs == 2       \* threading.Timer objects started per run
StartTime == 57    \* the minute of the day the process starts at
MaxTime == 59      \* the clock stops advancing here
MaxOffset == 1     \* schedule_email calls with a chosen send_at: now .. now + MaxOffset

\* ------------------------------------------------------- program constants
MinutesPerHour == 60      \* the modulus of the default minute
DefaultLead == 2          \* the default schedule time is "current minute + 2"

\* ---------------------------------------------------------------- lexemes
Lex(t, v) == [t |-> t, v |-> v]
LB == Lex("lb", <<>>)           \* {
RB == Lex("rb", <<>>)           \* }
Comma == Lex("comma", <<>>)     \* ,
Key(k) == Lex("key", <<k>>)     \* "k":
Str(s) == Lex("str", s)         \* "s"
Null == Lex("null", <<>>)       \* null
Num == Lex("num", <<"1">>)      \* 1
Arr == Lex("arr", <<"[", "1", "]">>)   \* [1]
WS == Lex("ws", <<>>)           \* blanks, newlines
Word == Lex("word", <<>>)       \* a prose word, no JSON token
Absent == Lex("absent", <<>>)   \* dict.get's default "", for a missing key

NotWs(x) == x.t # "ws"
IsValue(x) == x.t \in {"str", "null", "num", "arr"}

\* str.strip() on a string of characters
RECURSIVE LStrip(_)
LStrip(s) == IF s # <<>> /\ Head(s) = " " THEN LStrip(Tail(s)) ELSE s

RECURSIVE RStrip(_)
RStrip(s) == IF s # <<>> /\ s[Len(s)] = " " THEN RStrip(SubSeq(s, 1, Len(s) - 1)) ELSE s

Strip(s) == RStrip(LStrip(s))

\* str.strip() on a response text: whitespace lexemes at both ends go
RECURSIVE LStripText(_)
LStripText(s) == IF s # <<>> /\ Head(s).t = "ws" THEN LStripText(Tail(s)) ELSE s

RECURSIVE RStripText(_)
RStripText(s) ==
    IF s # <<>> /\ s[Len(s)].t = "ws" THEN RStripText(SubSeq(s, 1, Len(s) - 1)) ELSE s

StripText(s) == RStripText(LStripText(s))

\* Python's str() of a parsed JSON value
PyStr(x) ==
    CASE x.t = "str" -> x.v
      [] x.t = "null" -> <<"N", "o", "n", "e">>
      [] x.t = "num" -> x.v
      [] x.t = "arr" -> x.v
      [] OTHER -> <<>>

\* --------------------------------------------------------------- json.loads
\* the members of an object: key value (, key value)*
MembersOk(inner) ==
    \/ Len(inner) = 0
    \/ /\ Len(inner) % 3 = 2
       /\ \A i \in 1..Len(inner) :
            /\ (i % 3 = 1) => inner[i].t = "key"
            /\ (i % 3 = 2) => IsValue(inner[i])
            /\ (i % 3 = 0) => inner[i].t = "comma"

\* dict.get(k, ""): the value of the last member named k
DictGet(inner, k) ==
    LET at == {i \in 1..Len(inner) : inner[i] = Key(k)}
    IN  IF at = {} THEN Absent
        ELSE inner[(CHOOSE i \in at : \A j \in at : j <= i) + 1]

JsonFail == [ok |-> FALSE, isDict |-> FALSE, subject |-> Absent, body |-> Absent]

JsonLoads(text) ==
    LET toks == SelectSeq(text, NotWs)
        n == Len(toks)
        inner == SubSeq(toks, 2, n - 1)
    IN  IF n = 1 /\ IsValue(toks[1])
        THEN [ok |-> TRUE, isDict |-> FALSE, subject |-> Absent, body |-> Absent]
        ELSE IF n >= 2 /\ toks[1] = LB /\ toks[n] = RB /\ MembersOk(inner)
        THEN [ok |-> TRUE, isDict |-> TRUE,
              subject |-> DictGet(inner, "subject"), body |-> DictGet(inner, "body")]
        ELSE JsonFail

\* re.search(r"\{.*\}", text, re.DOTALL): from the first { to the last }
BraceSpan(text) ==
    LET lbs == {i \in 1..Len(text) : text[i] = LB}
        rbs == {i \in 1..Len(text) : text[i] = RB}
        first == CHOOSE i \in lbs : \A j \in lbs : i <= j
        last == CHOOSE i \in rbs : \A j \in rbs : j <= i
    IN  IF lbs # {} /\ rbs # {} /\ first < last
        THEN [found |-> TRUE, span |-> SubSeq(text, first, last)]
        ELSE [found |-> FALSE, span |-> <<>>]


\* ---------------------------------------------------------------- call_llm
ErrKeyMissing == "GEMINI_API_KEY is missing"
ErrEmptyResponse == "Gemini returned an empty response"
ErrRequestFailed == "LLM request failed"
ErrNotJson == "LLM output was not valid JSON"
ErrJsonParse == "JSON parse error"
ErrEmptyField == "AI returned an empty subject or body"

\* CallLlm asking once more after an empty answer
CallLlm_RetryEmpty(key, llm) ==
    IF ~key
    THEN [text |-> <<>>, err |-> ErrKeyMissing, requests |-> 0]
    ELSE IF llm.fail
    THEN [text |-> <<>>, err |-> ErrRequestFailed, requests |-> 1]
    ELSE IF StripText(llm.text) = <<>>
    THEN [text |-> <<>>, err |-> ErrEmptyResponse, requests |-> 2]
    ELSE [text |-> StripText(llm.text), err |-> "", requests |-> 1]

\* llm = [fail, text]: the request raised, or resp.text (empty for None).
\* requests counts the generate_content calls made.
CallLlm(key, llm) ==
    IF ~key
    THEN [text |-> <<>>, err |-> ErrKeyMissing, requests |-> 0]
    ELSE IF llm.fail
    THEN [text |-> <<>>, err |-> ErrRequestFailed, requests |-> 1]
    ELSE IF StripText(llm.text) = <<>>
    THEN [text |-> <<>>, err |-> ErrEmptyResponse, requests |-> 1]
    ELSE [text |-> StripText(llm.text), err |-> "", requests |-> 1]

\* ------------------------------------------------- build_email_from_topic
GenResult(email, err, raw, raised, requests) ==
    [email |-> email, err |-> err, raw |-> raw, raised |-> raised, requests |-> requests]

\* ParseOutput without the brace span of lines 112-119
ParseOutput_StrictOnly(text) ==
    LET strict == JsonLoads(text)
    IN  IF strict.ok THEN [data |-> strict, err |-> ""]
        ELSE [data |-> JsonFail, err |-> ErrNotJson]

\* lines 108-119: json.loads, then the brace span on a JSONDecodeError
ParseOutput(text) ==
    LET strict == JsonLoads(text)
        m == BraceSpan(text)
    IN  IF strict.ok THEN [data |-> strict, err |-> ""]
        ELSE IF ~m.found THEN [data |-> JsonFail, err |-> ErrNotJson]
        ELSE IF ~JsonLoads(m.span).ok THEN [data |-> JsonFail, err |-> ErrJsonParse]
        ELSE [data |-> JsonLoads(m.span), err |-> ""]

\* DraftOf without the check of line 123
DraftOf_Unchecked(data, requests) ==
    IF ~data.isDict THEN GenResult(<<>>, "", <<>>, TRUE, requests)
    ELSE GenResult(<<[subject |-> Strip(PyStr(data.subject)),
                      body |-> Strip(PyStr(data.body))]>>, "", <<>>, FALSE, requests)

\* lines 121-126; data.get raises AttributeError when data is no dict
DraftOf(data, requests) ==
    LET subject == Strip(PyStr(data.subject))
        body == Strip(PyStr(data.body))
    IN  IF ~data.isDict THEN GenResult(<<>>, "", <<>>, TRUE, requests)
        ELSE IF subject = <<>> \/ body = <<>>
        THEN GenResult(<<>>, ErrEmptyField, <<>>, FALSE, requests)
        ELSE GenResult(<<[subject |-> subject, body |-> body]>>, "", <<>>, FALSE, requests)

BuildEmailFromTopic(key, llm) ==
    LET c == CallLlm(key, llm)
        p == ParseOutput(c.text)
    IN  IF c.err # "" THEN GenResult(<<>>, c.err, <<>>, FALSE, c.requests)
        ELSE IF p.err # "" THEN GenResult(<<>>, p.err, c.text, FALSE, c.requests)
        ELSE DraftOf(p.data, c.requests)

\* ---------------------------------------------------------- send_email_now
MsgCredsMissing == "SMTP credentials missing"
MsgSent == "Sent successfully"
MsgSendFailed == "Send failed"
MsgScheduled == "Email scheduled"

\* what the mail relay does to one session: "ok", or the step that raises
TransportOutcomes == {"ok", "connect", "starttls", "login", "sendmail"}

\* what happens to the session of "with smtplib.SMTP(host, port) as server":
\* no session exists when the constructor's connect raises; otherwise the
\* body runs up to the step that raises, and SMTP.__exit__ closes the session
\* on the way out, by QUIT or, when that fails, by close()
SmtpSession(transport) ==
    CASE transport = "connect" -> <<>>
      [] transport = "starttls" -> <<"open", "close">>
      [] transport = "login" -> <<"open", "starttls", "close">>
      [] transport = "sendmail" -> <<"open", "starttls", "login", "close">>
      [] OTHER -> <<"open", "starttls", "login", "sendmail", "close">>

Count(trace, e) == Cardinality({i \in DOMAIN trace : trace[i] = e})

\* mail: the recipient, subject and body the call was given; connects: the
\* smtplib.SMTP(host, port) connection attempts it made; opened, closed: the
\* sessions it opened and those closed when it returned
SendResult(ok, msg, connects, session, to, subject, body) ==
    [ok |-> ok, msg |-> msg, connects |-> connects,
     opened |-> Count(session, "open"), closed |-> Count(session, "close"),
     mail |-> [to |-> to, subject |-> subject, body |-> body]]

\* SendEmailNow giving up only when both credentials are missing
SendEmailNow_BothMissing(email, password, to, subject, body, transport) ==
    IF ~email /\ ~password
    THEN SendResult(FALSE, MsgCredsMissing, 0, <<>>, to, subject, body)
    ELSE IF transport = "ok" /\ email /\ password
    THEN SendResult(TRUE, MsgSent, 1, SmtpSession(transport), to, subject, body)
    ELSE SendResult(FALSE, MsgSendFailed, 1, SmtpSession(transport), to, subject, body)

\* SendEmailNow with a session it quits only after a successful sendmail
SendEmailNow_QuitOnSuccess(email, password, to, subject, body, transport) ==
    IF ~email \/ ~password
    THEN SendResult(FALSE, MsgCredsMissing, 0, <<>>, to, subject, body)
    ELSE IF transport = "ok"
    THEN SendResult(TRUE, MsgSent, 1, SmtpSession(transport), to, subject, body)
    ELSE SendResult(FALSE, MsgSendFailed, 1,
                    SelectSeq(SmtpSession(transport), LAMBDA e : e # "close"),
                    to, subject, body)

SendEmailNow(email, password, to, subject, body, transport) ==
    IF ~email \/ ~password
    THEN SendResult(FALSE, MsgCredsMissing, 0, <<>>, to, subject, body)
    ELSE IF transport = "ok"
    THEN SendResult(TRUE, MsgSent, 1, SmtpSession(transport), to, subject, body)
    ELSE SendResult(FALSE, MsgSendFailed, 1, SmtpSession(transport), to, subject, body)

\* ----------------------------------------------------------- schedule_email
\* armed: a threading.Timer was started, with this interval; sent: what the
\* send_email_now calls made before returning gave back.  Nothing in the try
\* block raises for the naive datetimes main passes while a thread can be
\* started, so the except branch of lines 185-186 returns for no input here.
\* ScheduleEmail sending at once only when send_at is strictly past
ScheduleEmail_StrictPast(clock, send_at, email, password, to, subject, body, transport) ==
    LET delay == send_at - clock
        r == SendEmailNow(email, password, to, subject, body, transport)
    IN  IF delay < 0
        THEN [ok |-> r.ok, msg |-> r.msg, armed |-> FALSE, interval |-> 0, sent |-> <<r>>]
        ELSE [ok |-> TRUE, msg |-> MsgScheduled, armed |-> TRUE, interval |-> delay,
              sent |-> <<>>]

\* ScheduleEmail starting a timer of interval 0 for a past send_at
ScheduleEmail_AlwaysTimer(clock, send_at, email, password, to, subject, body, transport) ==
    LET delay == send_at - clock
    IN  [ok |-> TRUE, msg |-> MsgScheduled, armed |-> TRUE,
         interval |-> IF delay <= 0 THEN 0 ELSE delay, sent |-> <<>>]

ScheduleEmail(clock, send_at, email, password, to, subject, body, transport) ==
    LET delay == send_at - clock
        r == SendEmailNow(email, password, to, subject, body, transport)
    IN  IF delay <= 0
        THEN [ok |-> r.ok, msg |-> r.msg, armed |-> FALSE, interval |-> 0, sent |-> <<r>>]
        ELSE [ok |-> TRUE, msg |-> MsgScheduled, armed |-> TRUE, interval |-> delay,
              sent |-> <<>>]

\* task(): the results of the send_email_now calls a fired timer makes
Task(email, password, to, subject, body, transport) ==
    <<SendEmailNow(email, password, to, subject, body, transport)>>


\* ------------------------------------------------------------------ inputs
Recipients == {"", "a@x"}      \* the "Recipient email" text input

\* the subject and body values of the objects the model answers with
Fields ==
    {<<Str(<<" ", "s", " ">>), Str(<<"b">>)>>, <<Str(<<"t">>), Str(<<"c", " ">>)>>,
     <<Null, Str(<<"b">>)>>, <<Str(<<" ">>), Str(<<"b">>)>>, <<Str(<<"t">>), Str(<<>>)>>,
     <<Absent, Str(<<"b">>)>>, <<Str(<<"t">>), Absent>>, <<Absent, Absent>>}

\* those of the objects it also wraps in prose
Wrapped ==
    {<<Str(<<" ", "s", " ">>), Str(<<"b">>)>>, <<Null, Str(<<"b">>)>>,
     <<Str(<<"t">>), Absent>>}

Member(k, x) == IF x = Absent THEN <<>> ELSE <<Key(k), x>>

\* the text of {"subject": s, "body": b}, a field left out when Absent
ObjText(s, b) ==
    <<LB>> \o Member("subject", s)
           \o (IF s # Absent /\ b # Absent THEN <<Comma>> ELSE <<>>)
           \o Member("body", b) \o <<RB>>

Objects == {ObjText(f[1], f[2]) : f \in Fields}

\* resp.text of the model: nothing, blanks, prose, JSON that is no object,
\* an object alone, in blanks, in prose, followed by a stray brace
Responses ==
    {<<>>, <<WS>>, <<Word>>, <<RB, Word, LB>>, <<LB, Word, RB>>}
    \cup {<<Str(<<"s">>)>>, <<Null>>, <<Arr>>, <<WS, Num>>}
    \cup Objects
    \cup {<<WS>> \o ObjText(Str(<<"t">>), Str(<<"c", " ">>)) \o <<WS>>}
    \cup {<<Word>> \o ObjText(f[1], f[2]) \o <<Word>> : f \in Wrapped}
    \cup {ObjText(Str(<<"s">>), Str(<<"b">>)) \o <<Word, RB>>}

LlmOutcomes ==
    {[fail |-> TRUE, text |-> <<>>]} \cup {[fail |-> FALSE, text |-> t] : t \in Responses}

\* ------------------------------------------------------------------- state
VARIABLES
    GEMINI_API_KEY,   \* TRUE when the key is a non-empty string
    SMTP_EMAIL,       \* TRUE when the sender identity is non-empty
    SMTP_PASSWORD,    \* TRUE when the sender secret is non-empty
    draft,            \* st.session_state.draft: <<>> for None, or <<[subject, body]>>
    chat,             \* st.session_state.chat: the messages the latest script run
                      \* appended (the code reads no earlier message back)
    now,              \* datetime.now()
    alive,            \* the process runs; its daemon timer threads die with it
    timers,           \* the threading.Timer objects started, in order
    stdout,           \* the "[SCHEDULED EMAIL]" lines printed
    last,             \* what the last caller operation called and got back
    ops               \* caller operations so far

vars == <<GEMINI_API_KEY, SMTP_EMAIL, SMTP_PASSWORD, draft, chat, now, alive, timers,
          stdout, last, ops>>

config == <<GEMINI_API_KEY, SMTP_EMAIL, SMTP_PASSWORD>>

Msg(role, content) == [role |-> role, content |-> content]

Welcome == Msg("assistant", "welcome")

NoDraft == [subject |-> <<>>, body |-> <<>>]

NoLlm == [fail |-> FALSE, text |-> <<>>]

\* op: the operation; called: the function it called ("" for none); ok, msg,
\* raw: what came back; raised: it raised instead; to, subject, body,
\* send_at: the arguments passed; armed: a timer was started; llm, requests:
\* what the model did and the generate_content calls made; results: what the
\* send_email_now calls made before it returned gave back; before: the
\* session's draft as the script run found it (line 246)
Last(op, called, ok, msg, raw, raised, to, d, send_at, armed, llm, requests, results, before) ==
    [op |-> op, called |-> called, ok |-> ok, msg |-> msg, raw |-> raw, raised |-> raised,
     to |-> to, subject |-> d.subject, body |-> d.body, send_at |-> send_at,
     armed |-> armed, llm |-> llm, requests |-> requests, results |-> results,
     before |-> before]

\* after the first script run: init_state, then the welcome message
Init ==
    /\ GEMINI_API_KEY \in BOOLEAN
    /\ SMTP_EMAIL \in BOOLEAN
    /\ SMTP_PASSWORD \in BOOLEAN
    /\ draft = <<>>
    /\ chat = <<Welcome>>
    /\ now = StartTime
    /\ alive = TRUE
    /\ timers = <<>>
    /\ stdout = <<>>
    /\ last = Last("none", "", FALSE, "", <<>>, FALSE, "", NoDraft, 0, FALSE, NoLlm, 0, <<>>,
                    <<>>)
    /\ ops = 0

\* ChatInput updating the fields of a draft it already holds, the body only
ChatInput_Merge(llm) ==
    LET r == BuildEmailFromTopic(GEMINI_API_KEY, llm)
        okay == ~r.raised /\ r.err = ""
    IN  /\ alive /\ ops < MaxOps
        /\ chat' = <<Msg("user", "prompt")>>
        /\ draft' = IF ~okay THEN draft
                    ELSE IF draft = <<>> THEN r.email
                    ELSE <<[subject |-> draft[1].subject, body |-> r.email[1].body]>>
        /\ last' = Last("generate", "build_email_from_topic", okay, r.err, r.raw,
                        r.raised, "", NoDraft, 0, FALSE, llm, r.requests, <<>>, draft)
        /\ ops' = ops + 1
        /\ UNCHANGED <<config, now, alive, timers, stdout>>

\* ChatInput storing whatever build_email_from_topic returned, None included
ChatInput_StoreAlways(llm) ==
    LET r == BuildEmailFromTopic(GEMINI_API_KEY, llm)
    IN  /\ alive /\ ops < MaxOps
        /\ chat' = <<Msg("user", "prompt")>>
        /\ draft' = r.email
        /\ last' = Last("generate", "build_email_from_topic", ~r.raised /\ r.err = "",
                        r.err, r.raw, r.raised, "", NoDraft, 0, FALSE, llm, r.requests,
                        <<>>, draft)
        /\ ops' = ops + 1
        /\ UNCHANGED <<config, now, alive, timers, stdout>>

\* main, lines 298-323: a chat input.  An exception ends the script run
\* after line 299; Streamlit reports it and the session goes on.
ChatInput(llm) ==
    LET r == BuildEmailFromTopic(GEMINI_API_KEY, llm)
        reply == IF r.raised THEN <<>>
                 ELSE IF r.err # "" THEN <<Msg("assistant", "problem")>>
                 ELSE <<Msg("assistant", "draft")>>
    IN  /\ alive /\ ops < MaxOps
        /\ chat' = <<Msg("user", "prompt")>> \o reply
        /\ draft' = IF ~r.raised /\ r.err = "" THEN r.email ELSE draft
        /\ last' = Last("generate", "build_email_from_topic", ~r.raised /\ r.err = "",
                        r.err, r.raw, r.raised, "", NoDraft, 0, FALSE, llm, r.requests,
                        <<>>, draft)
        /\ ops' = ops + 1
        /\ UNCHANGED <<config, now, alive, timers, stdout>>

\* SendNowClick without the check of line 280
SendNowClick_NoCheck(to, transport) ==
    LET d == draft[1]
        r == SendEmailNow(SMTP_EMAIL, SMTP_PASSWORD, to, d.subject, d.body, transport)
    IN  /\ alive /\ ops < MaxOps
        /\ draft # <<>>
        /\ chat' = <<Msg("assistant", r.msg)>>
        /\ last' = Last("send_now", "send_email_now", r.ok, r.msg, <<>>, FALSE,
                        to, d, 0, FALSE, NoLlm, 0, <<r>>, draft)
        /\ ops' = ops + 1
        /\ UNCHANGED <<config, draft, now, alive, timers, stdout>>

\* main, lines 246-247 and 279-284: the "Send now" button
SendNowClick(to, transport) ==
    LET d == draft[1]
        r == SendEmailNow(SMTP_EMAIL, SMTP_PASSWORD, to, d.subject, d.body, transport)
    IN  /\ alive /\ ops < MaxOps
        /\ draft # <<>>
        /\ IF to = ""
           THEN /\ chat' = <<Msg("assistant", "need recipient to send")>>
                /\ last' = Last("send_now", "", FALSE, "", <<>>, FALSE, to, NoDraft, 0,
                                FALSE, NoLlm, 0, <<>>, draft)
           ELSE /\ chat' = <<Msg("assistant", r.msg)>>
                /\ last' = Last("send_now", "send_email_now", r.ok, r.msg, <<>>, FALSE,
                                to, d, 0, FALSE, NoLlm, 0, <<r>>, draft)
        /\ ops' = ops + 1
        /\ UNCHANGED <<config, draft, now, alive, timers, stdout>>

\* the threading.Timer schedule_email starts, with the arguments task closes
\* over; results: what the send_email_now calls of its thread gave back
Timer(interval, to, subject, body) ==
    [interval |-> interval, started |-> now, to |-> to, subject |-> subject,
     body |-> body, state |-> "Armed", results |-> <<>>]

\* a call of schedule_email with the session's draft, its effects on the state
CallScheduleEmail(op, send_at, to, transport) ==
    LET d == draft[1]
        r == ScheduleEmail(now, send_at, SMTP_EMAIL, SMTP_PASSWORD, to, d.subject, d.body,
                           transport)
    IN  /\ r.armed => (Len(timers) < MaxJobs /\ send_at <= MaxTime)
        /\ last' = Last(op, "schedule_email", r.ok, r.msg, <<>>, FALSE, to, d, send_at,
                        r.armed, NoLlm, 0, r.sent, draft)
        /\ timers' = IF r.armed
                     THEN Append(timers, Timer(r.interval, to, d.subject, d.body))
                     ELSE timers
        /\ chat' = IF op = "schedule_click" THEN <<Msg("assistant", r.msg)>> ELSE <<>>

\* datetime.combine(today, dtime(hour=now.hour, minute=(now.minute + 2) % 60))
DefaultSendAt(clock) ==
    LET minute == clock % MinutesPerHour
    IN  (clock - minute) + ((minute + DefaultLead) % MinutesPerHour)

\* main, lines 246-247, 268-277 and 286-291: the "Schedule send" button; the
\* date and time widgets are created in this run and return their defaults
ScheduleClick(to, transport) ==
    /\ alive /\ ops < MaxOps
    /\ draft # <<>>
    /\ IF to = ""
       THEN /\ chat' = <<Msg("assistant", "need recipient to schedule")>>
            /\ last' = Last("schedule_click", "", FALSE, "", <<>>, FALSE, to, NoDraft,
                            DefaultSendAt(now), FALSE, NoLlm, 0, <<>>, draft)
            /\ UNCHANGED timers
       ELSE CallScheduleEmail("schedule_click", DefaultSendAt(now), to, transport)
    /\ ops' = ops + 1
    /\ UNCHANGED <<config, draft, now, alive, stdout>>

\* schedule_email called with a chosen instant, for the session's draft
ScheduleCall(send_at, to, transport) ==
    /\ alive /\ ops < MaxOps
    /\ draft # <<>>
    /\ to # ""
    /\ CallScheduleEmail("schedule_call", send_at, to, transport)
    /\ ops' = ops + 1
    /\ UNCHANGED <<config, draft, now, alive, stdout>>

\* the clock advances by a minute
Tick ==
    /\ alive /\ now < MaxTime
    /\ now' = now + 1
    /\ UNCHANGED <<config, draft, chat, alive, timers, stdout, last, ops>>

\* TimerFire not waiting for the interval
TimerFire_Early(j) ==
    /\ alive
    /\ j \in DOMAIN timers
    /\ timers[j].state = "Armed"
    /\ timers' = [timers EXCEPT ![j].state = "Fired"]
    /\ UNCHANGED <<config, draft, chat, now, alive, stdout, last, ops>>

\* TimerFire when a later schedule_email call has cancelled the timers before
TimerFire_OnlyLatest(j) ==
    /\ alive
    /\ j = Len(timers)
    /\ j \in DOMAIN timers
    /\ timers[j].state = "Armed"
    /\ now >= timers[j].started + timers[j].interval
    /\ timers' = [timers EXCEPT ![j].state = "Fired"]
    /\ UNCHANGED <<config, draft, chat, now, alive, stdout, last, ops>>

\* threading.Timer.run: the interval has elapsed, the timer thread calls task
TimerFire(j) ==
    /\ alive
    /\ j \in DOMAIN timers
    /\ timers[j].state = "Armed"
    /\ now >= timers[j].started + timers[j].interval
    /\ timers' = [timers EXCEPT ![j].state = "Fired"]
    /\ UNCHANGED <<config, draft, chat, now, alive, stdout, last, ops>>

\* TaskRun reading the session's draft when the timer fires
TaskRun_SessionDraft(j, transport) ==
    LET t == timers[j]
        d == IF draft = <<>> THEN [subject |-> t.subject, body |-> t.body] ELSE draft[1]
        rs == Task(SMTP_EMAIL, SMTP_PASSWORD, t.to, d.subject, d.body, transport)
    IN  /\ alive
        /\ j \in DOMAIN timers
        /\ t.state = "Fired"
        /\ timers' = [timers EXCEPT ![j].state = "Done", ![j].results = rs]
        /\ stdout' = stdout \o [i \in 1..Len(rs) |-> [job |-> j, msg |-> rs[i].msg]]
        /\ UNCHANGED <<config, draft, chat, now, alive, last, ops>>

\* task, lines 170-172, on the timer thread: send_email_now runs and
\* returns, the message is printed
TaskRun(j, transport) ==
    LET t == timers[j]
        rs == Task(SMTP_EMAIL, SMTP_PASSWORD, t.to, t.subject, t.body, transport)
    IN  /\ alive
        /\ j \in DOMAIN timers
        /\ t.state = "Fired"
        /\ timers' = [timers EXCEPT ![j].state = "Done", ![j].results = rs]
        /\ stdout' = stdout \o [i \in 1..Len(rs) |-> [job |-> j, msg |-> rs[i].msg]]
        /\ UNCHANGED <<config, draft, chat, now, alive, last, ops>>

\* the process ends: the session state is gone, and line 182 makes every
\* timer thread a daemon, so the timers not yet done stay as they are
Exit ==
    /\ alive
    /\ alive' = FALSE
    /\ draft' = <<>>
    /\ chat' = <<>>
    /\ last' = Last("none", "", FALSE, "", <<>>, FALSE, "", NoDraft, 0, FALSE, NoLlm, 0, <<>>,
                    <<>>)
    /\ ops' = 0
    /\ UNCHANGED <<config, now, timers, stdout>>

Next ==
    \/ \E llm \in LlmOutcomes : ChatInput(llm)
    \/ \E to \in Recipients, tr \in TransportOutcomes : SendNowClick(to, tr)
    \/ \E to \in Recipients, tr \in TransportOutcomes : ScheduleClick(to, tr)
    \/ \E off \in 0..MaxOffset, to \in Recipients, tr \in TransportOutcomes :
          ScheduleCall(now + off, to, tr)
    \/ Tick
    \/ \E j \in 1..Len(timers) : TimerFire(j)
    \/ \E j \in 1..Len(timers), tr \in TransportOutcomes : TaskRun(j, tr)
    \/ Exit

Spec == Init /\ [][Next]_vars

\* the timer threads get to run while the process lives, and time passes
FairSpec ==
    /\ Spec
    /\ WF_vars(Tick)
    /\ \A j \in 1..MaxJobs : WF_vars(TimerFire(j))
    /\ \A j \in 1..MaxJobs : WF_vars(\E tr \in TransportOutcomes : TaskRun(j, tr))

\* ------------------------------------------------------------------ claims
Jobs == 1..Len(timers)

CredsSet == SMTP_EMAIL /\ SMTP_PASSWORD

\* the caller operation of this step called schedule_email
ScheduleStep == ops' = ops + 1 /\ last'.called = "schedule_email"

\* the terminal outcome of a job whose send_email_now call returned r
Outcome(r) ==
    IF r.ok THEN "Delivered"
    ELSE IF r.msg = MsgSendFailed THEN "TransportFailed"
    ELSE "ConfigFailed"

\* C1: every draft handed to the Delivery Engine, by send now, by
\* schedule_email and its immediate send, or by a timer's task, has a
\* non-empty subject and a non-empty body.
C1_HandedDraftsNonEmpty ==
    /\ last.called \in {"send_email_now", "schedule_email"} =>
          last.subject # <<>> /\ last.body # <<>>
    /\ \A i \in 1..Len(last.results) :
          last.results[i].mail.subject # <<>> /\ last.results[i].mail.body # <<>>
    /\ \A j \in Jobs :
          /\ timers[j].subject # <<>> /\ timers[j].body # <<>>
          /\ \A i \in 1..Len(timers[j].results) :
                /\ timers[j].results[i].mail.subject # <<>>
                /\ timers[j].results[i].mail.body # <<>>

\* a task has sent its draft, and the caller has just sent one too
C1_Witness ==
    /\ last.called = "send_email_now"
    /\ \E j \in Jobs : timers[j].state = "Done"

\* C2: schedule_email with send_at <= now starts no timer, calls
\* send_email_now once with the recipient, subject and body it was given,
\* and returns that call's (ok, msg).
C2_DegenerateCollapse ==
    [][(ScheduleStep /\ last'.send_at <= now) =>
          /\ timers' = timers
          /\ ~last'.armed
          /\ Len(last'.results) = 1
          /\ last'.results[1].mail =
                [to |-> last'.to, subject |-> last'.subject, body |-> last'.body]
          /\ last'.ok = last'.results[1].ok
          /\ last'.msg = last'.results[1].msg
          /\ last'.msg \in {MsgSent, MsgSendFailed, MsgCredsMissing}]_vars

\* schedule_email was called for this very minute, and the send failed
C2_Witness ==
    /\ last.op = "schedule_call"
    /\ last.send_at = now
    /\ last.msg = MsgSendFailed

\* C3: schedule_email with send_at > now returns the "scheduled" message at
\* once and sends nothing itself; the timer's thread contacts no transport
\* before the interval has elapsed; a timer that fired has called
\* send_email_now exactly once, and the outcome goes to stdout only.
C3_DeferredSend ==
    [][/\ (ScheduleStep /\ last'.send_at > now) =>
             /\ last'.ok /\ last'.msg = MsgScheduled /\ last'.armed
             /\ last'.results = <<>>
             /\ now' = now
             /\ Len(timers') = Len(timers) + 1
             /\ timers'[Len(timers')].state = "Armed"
             /\ timers'[Len(timers')].started + timers'[Len(timers')].interval
                   = last'.send_at
       /\ \A j \in Jobs :
             /\ timers[j].state = "Armed" => timers[j].results = <<>>
             /\ timers'[j].state # timers[j].state =>
                   now >= timers[j].started + timers[j].interval
             /\ timers'[j].state = "Done" => Len(timers'[j].results) = 1
             /\ timers'[j].results # timers[j].results =>
                   /\ last' = last /\ chat' = chat /\ draft' = draft
                   /\ Len(stdout') = Len(stdout) + 1]_vars

\* a timer started by the Schedule button has sent its mail
C3_Witness ==
    \E j \in Jobs :
        /\ timers[j].state = "Done"
        /\ timers[j].interval = DefaultLead
        /\ timers[j].results[1].ok

\* C4 as stated: a job that has fired ends Delivered or TransportFailed, also
\* when the credentials are missing.
C4_Original ==
    \A j \in Jobs :
        timers[j].state = "Done" =>
            Outcome(timers[j].results[1]) \in {"Delivered", "TransportFailed"}

\* C4, amended: a job goes Armed -> Fired -> Done, no state skipped or
\* revisited and no job withdrawn; Done is Delivered, TransportFailed or,
\* exactly when the credentials are missing, ConfigFailed; a schedule_email
\* call with send_at <= now starts no timer and returns a terminal outcome.
C4_JobStateMachine ==
    [][/\ Len(timers') >= Len(timers)
       /\ \A j \in Jobs :
             /\ <<timers[j].state, timers'[j].state>> \in
                   {<<"Armed", "Armed">>, <<"Armed", "Fired">>, <<"Fired", "Fired">>,
                    <<"Fired", "Done">>, <<"Done", "Done">>}
             /\ timers[j].state = "Done" => timers'[j] = timers[j]
       /\ \A j \in 1..Len(timers') :
             /\ j > Len(timers) => timers'[j].state = "Armed"
             /\ timers'[j].state = "Done" =>
                   /\ Len(timers'[j].results) = 1
                   /\ (Outcome(timers'[j].results[1]) = "ConfigFailed") <=> ~CredsSet
                   /\ Outcome(timers'[j].results[1]) = "TransportFailed" =>
                         timers'[j].results[1].connects = 1
       /\ (ScheduleStep /\ last'.send_at <= now) =>
             /\ timers' = timers
             /\ Outcome(last'.results[1]) \in
                   {"Delivered", "TransportFailed", "ConfigFailed"}]_vars

\* a job fired without credentials and ended in neither of the two states
C4_Witness ==
    \E j \in Jobs :
        timers[j].state = "Done" /\ Outcome(timers[j].results[1]) = "ConfigFailed"

\* C5 as stated: an armed job always eventually fires, whatever happens next.
C5_Original ==
    \A j \in 1..MaxJobs :
        (Len(timers) >= j /\ timers[j].state = "Armed")
            ~> (Len(timers) >= j /\ timers[j].state # "Armed")

\* C5, amended: an armed job eventually fires unless the process ends first
\* (its timer thread is a daemon), whatever the caller does meanwhile; it
\* fires once, and its task sends at most once.
C5_FiresWhileAlive ==
    /\ \A j \in 1..MaxJobs :
          (Len(timers) >= j /\ timers[j].state = "Armed")
              ~> ((Len(timers) >= j /\ timers[j].state # "Armed") \/ ~alive)
    /\ [][\A j \in Jobs : timers[j].state # "Armed" => timers'[j].state # "Armed"]_vars
    /\ [](\A j \in Jobs : Len(timers[j].results) <= 1)

\* a job fired after the caller generated another draft
C5_Witness ==
    /\ last.op = "generate"
    /\ \E j \in Jobs : timers[j].state = "Fired" /\ draft[1].subject # timers[j].subject

\* C6: no core operation raises.
C6_NeverRaises == ~last.raised

\* C7: without the sender identity or the sender secret send_email_now
\* returns the missing-credentials failure and connects to nothing, on every
\* path to it.
C7_NoCredsNoConnect ==
    ~CredsSet =>
        /\ \A i \in 1..Len(last.results) :
              /\ ~last.results[i].ok
              /\ last.results[i].msg = MsgCredsMissing
              /\ last.results[i].connects = 0
        /\ last.called \in {"send_email_now", "schedule_email"} /\ ~last.armed =>
              ~last.ok /\ last.msg = MsgCredsMissing /\ Len(last.results) = 1
        /\ \A j \in Jobs :
              /\ \A i \in 1..Len(timers[j].results) :
                    /\ ~timers[j].results[i].ok
                    /\ timers[j].results[i].msg = MsgCredsMissing
                    /\ timers[j].results[i].connects = 0
              /\ timers[j].state = "Done" => Len(timers[j].results) = 1
        /\ \A i \in 1..Len(stdout) : stdout[i].msg = MsgCredsMissing

\* only the secret is missing; a task and an immediate schedule have failed
C7_Witness ==
    /\ SMTP_EMAIL /\ ~SMTP_PASSWORD
    /\ last.called = "schedule_email" /\ ~last.armed
    /\ \E j \in Jobs : timers[j].state = "Done"

\* C8: a generate call makes one generate_content request when the key is
\* set, whatever comes back, and none, failing with the missing-key error,
\* when it is not.
C8_OneRequest ==
    last.op = "generate" =>
        /\ last.requests = IF GEMINI_API_KEY THEN 1 ELSE 0
        /\ ~GEMINI_API_KEY => (~last.ok /\ last.msg = ErrKeyMissing)

\* a malformed answer was not asked for again
C8_Witness ==
    /\ last.op = "generate"
    /\ last.msg = ErrJsonParse
    /\ last.requests = 1

\* the model answered, with text left after stripping
Answered == last.op = "generate" /\ GEMINI_API_KEY /\ ~last.llm.fail
            /\ StripText(last.llm.text) # <<>>

\* C9: a non-empty response with no { ... } span fails as malformed output,
\* the error carrying the raw text.
C9_NoSpanMalformed ==
    (Answered /\ ~BraceSpan(StripText(last.llm.text)).found) =>
        /\ ~last.ok /\ ~last.raised
        /\ last.msg \in {ErrNotJson, ErrJsonParse}
        /\ last.raw = StripText(last.llm.text)

\* a field that is missing, null or blank
NoText(x) == x = Absent \/ x = Null \/ (x.t = "str" /\ Strip(x.v) = <<>>)

\* C10: a response that parses to an object whose subject or body is
\* missing, null or blank fails with the empty-field error and gives no draft.
C10_EmptyFieldRejected ==
    LET p == ParseOutput(StripText(last.llm.text))
    IN  (Answered /\ p.err = "" /\ p.data.isDict
            /\ (NoText(p.data.subject) \/ NoText(p.data.body))) =>
           ~last.ok /\ last.msg = ErrEmptyField

\* a JSON string that keeps text once trimmed
HasText(x) == x.t = "str" /\ Strip(x.v) # <<>>

\* prose: words and blanks, no JSON token
IsProse(s) == \A i \in 1..Len(s) : s[i].t \in {"word", "ws"}

\* text is {"subject": S, "body": B}, alone or with prose before and after
ObjectIn(text, S, B) ==
    \E i \in 0..Len(text), j \in 0..Len(text) :
        /\ i <= j
        /\ IsProse(SubSeq(text, 1, i))
        /\ IsProse(SubSeq(text, j + 1, Len(text)))
        /\ SelectSeq(SubSeq(text, i + 1, j), NotWs) = ObjText(S, B)

\* C11: for a response that is the JSON object with a subject S and a body B
\* that hold text, alone or wrapped in prose, generate succeeds and the draft
\* is exactly (trim(S), trim(B)); when the whole text is no JSON, what is
\* parsed instead is exactly the text from its first { through its last },
\* so a text whose span is no JSON fails with the parse error.
C11_ObjectParsed ==
    LET text == last.llm.text
        t == StripText(text)
        vals == {text[k] : k \in DOMAIN text}
        lbs == {i \in DOMAIN t : t[i] = LB}
        rbs == {i \in DOMAIN t : t[i] = RB}
        lo == CHOOSE i \in lbs : \A k \in lbs : i <= k
        hi == CHOOSE i \in rbs : \A k \in rbs : k <= i
    IN  Answered =>
          /\ \A S \in vals, B \in vals :
                (HasText(S) /\ HasText(B) /\ ObjectIn(text, S, B)) =>
                   /\ last.ok /\ ~last.raised
                   /\ draft = <<[subject |-> Strip(S.v), body |-> Strip(B.v)]>>
          /\ (~JsonLoads(t).ok /\ lbs # {} /\ rbs # {} /\ lo < hi
                 /\ ~JsonLoads(SubSeq(t, lo, hi)).ok) =>
                /\ ~last.ok /\ last.msg = ErrJsonParse /\ last.raw = t

\* an object wrapped in prose gave its trimmed fields as the draft
C11_Witness ==
    /\ last.op = "generate" /\ last.ok
    /\ last.llm.text = <<Word>> \o ObjText(Str(<<" ", "s", " ">>), Str(<<"b">>)) \o <<Word>>
    /\ draft = <<[subject |-> <<"s">>, body |-> <<"b">>]>>

\* C12: after two successful generate calls in a row the session holds
\* exactly the second call's (subject, body), no field of the first; the
\* draft held is always a pair one generate call produced.
C12_SecondDraftOnly ==
    LET p == ParseOutput(StripText(last.llm.text)).data
    IN  /\ (last.op = "generate" /\ last.ok) =>
              draft = <<[subject |-> Strip(PyStr(p.subject)),
                         body |-> Strip(PyStr(p.body))]>>
        /\ draft # <<>> =>
              \E llm \in LlmOutcomes : BuildEmailFromTopic(TRUE, llm).email = draft

\* the second of two generate calls replaced both fields of the first's draft
C12_Witness ==
    /\ ops = 2
    /\ last.op = "generate" /\ last.ok
    /\ last.before # <<>>
    /\ last.before[1].subject # draft[1].subject
    /\ last.before[1].body # draft[1].body

\* the jobs that have made their send attempt
DoneJobs == {j \in Jobs : timers[j].state = "Done"}

\* C13: no later call cancels, replaces or alters a timer; the timer a
\* schedule_email call starts holds the recipient, subject and body of that
\* call, and its task makes its single send attempt with these, whatever was
\* generated since, touching no other timer; the attempts made by tasks are
\* as many as the timers whose task has run.
C13_JobsIndependent ==
    /\ [][/\ Len(timers') >= Len(timers)
          /\ \A j \in Jobs :
                /\ timers'[j].to = timers[j].to
                /\ timers'[j].subject = timers[j].subject
                /\ timers'[j].body = timers[j].body
                /\ timers'[j].started = timers[j].started
                /\ timers'[j].interval = timers[j].interval
                /\ ops' # ops => timers'[j] = timers[j]
                /\ timers'[j].results # timers[j].results =>
                      /\ Len(timers'[j].results) = 1
                      /\ timers'[j].results[1].mail =
                            [to |-> timers[j].to, subject |-> timers[j].subject,
                             body |-> timers[j].body]
                      /\ \A k \in Jobs : k # j => timers'[k] = timers[k]
          /\ (ScheduleStep /\ last'.armed) =>
                /\ Len(timers') = Len(timers) + 1
                /\ timers'[Len(timers')].to = last'.to
                /\ timers'[Len(timers')].subject = draft[1].subject
                /\ timers'[Len(timers')].body = draft[1].body]_vars
    /\ [](/\ \A j \in Jobs : Len(timers[j].results) = IF j \in DoneJobs THEN 1 ELSE 0
          /\ Len(stdout) = Cardinality(DoneJobs))

\* a task sent the draft of its own call after another draft was generated
C13_Witness ==
    /\ last.op = "generate" /\ last.ok
    /\ \E j \in Jobs :
          /\ timers[j].state = "Done"
          /\ timers[j].results[1].mail.subject # draft[1].subject
          /\ timers[j].results[1].mail.subject = timers[j].subject

\* every send_email_now call that has returned
Attempts ==
    {last.results[i] : i \in 1..Len(last.results)}
    \cup UNION {{timers[j].results[i] : i \in 1..Len(timers[j].results)} : j \in Jobs}

\* C14: a send attempt opens at most one session, its own, and has closed it
\* when it returns, whether it succeeded or failed at the encryption upgrade,
\* the authentication or the transmission; no session is open once all
\* attempts have returned.
C14_SessionClosed ==
    /\ \A r \in Attempts :
          /\ r.opened <= 1
          /\ r.closed = r.opened
          /\ r.opened <= r.connects
          /\ r.ok => r.opened = 1
    /\ \A tr \in TransportOutcomes :
          LET r == SendEmailNow(TRUE, TRUE, "a@x", <<"s">>, <<"b">>, tr)
          IN  /\ r.closed = r.opened
              /\ tr # "connect" => r.opened = 1

\* an attempt failed on a session it had opened, and another succeeded
C14_Witness ==
    /\ \E r \in Attempts : ~r.ok /\ r.opened = 1 /\ r.closed = 1
    /\ \E r \in Attempts : r.ok

\* C15: with an empty recipient the Send now and Schedule send buttons call
\* neither send_email_now nor schedule_email, start no timer, leave the
\* draft as it is and add one assistant message asking for the recipient; no
\* send attempt and no timer has an empty recipient.
C15_EmptyRecipient ==
    /\ [][(ops' = ops + 1 /\ last'.op \in {"send_now", "schedule_click"}
              /\ last'.to = "") =>
             /\ last'.called = ""
             /\ last'.results = <<>>
             /\ ~last'.armed
             /\ timers' = timers
             /\ stdout' = stdout
             /\ draft' = draft
             /\ chat' = <<Msg("assistant",
                              IF last'.op = "send_now" THEN "need recipient to send"
                              ELSE "need recipient to schedule")>>]_vars
    /\ [](/\ \A r \in Attempts : r.mail.to # ""
          /\ \A j \in Jobs : timers[j].to # "")

\* Schedule send was clicked with no recipient while a timer was armed
C15_Witness ==
    /\ last.op = "schedule_click"
    /\ last.to = ""
    /\ last.called = ""
    /\ \E j \in Jobs : timers[j].state = "Armed"

\* C16: a generate call that fails, for a missing key, an empty response,
\* malformed output, an empty field or a failed request, leaves the
\* session's draft as it was.
C16_FailedKeepsDraft ==
    (last.op = "generate" /\ ~last.ok) => draft = last.before

\* a malformed answer came back while a draft was held
C16_Witness ==
    /\ last.op = "generate"
    /\ ~last.ok
    /\ last.msg = ErrJsonParse
    /\ draft # <<>>
    /\ draft = last.before

\* C17: the default instant the Schedule button passes to schedule_email is
\* later than now, so the click starts a timer and never sends at once.
C17_DefaultInFuture ==
    [][(ScheduleStep /\ last'.op = "schedule_click") =>
          /\ last'.send_at > now
          /\ last'.armed
          /\ Len(timers') = Len(timers) + 1]_vars

====
